---- MODULE Spec2Model ----
(***************************************************************************)
(* Model of the earnings mover scanner (Hannay001/AINALYZER):              *)
(*   intraday.py    PolygonIntradayClient.get_session_day and helpers      *)
(*   analyzer.py    EarningsReactionAnalyzer.analyze_ticker                *)
(*   consistency.py ConsistencyScorer.score                                *)
(*   cli.py         run_scan                                               *)
(*                                                                         *)
(* Time is counted in whole hours; day 0 is a Monday, so that              *)
(* date.weekday() of day d is d % 7 (Saturday = 5, Sunday = 6).            *)
(* Floating-point values are modelled as exact rationals <<n, d>> in       *)
(* lowest terms with d > 0; <<0, 0>> is the missing value (pd.NA, None,    *)
(* NaN) and <<1, 0>> is +inf.                                              *)
(***************************************************************************)
EXTENDS Integers, Sequences, FiniteSets, TLC

VARIABLES
    rs_arg,      \* get_session_day: the arguments of the call
    rs_ret,      \* get_session_day: what the call returned or raised
    an_events,   \* analyze_ticker: the events table passed in, with the
                 \* provider's answers to the requests made for each event
    an_sorted,   \* analyze_ticker: events_sorted
    an_ret,      \* analyze_ticker: the records returned, or the exception
    sc_metrics,  \* score: the reaction-metrics table passed in
    sc_daily,    \* score: the provider's answer to a daily-bars request
    sc_ret,      \* score: the series returned, or the exception
    pc,          \* run_scan: where the scan is
    tickers,     \* run_scan: the universe fetched
    idx,         \* run_scan: the number of tickers the loop has taken
    inputs,      \* run_scan: what the providers answered for each ticker taken
    records,     \* run_scan: the rows collected
    failed,      \* run_scan: the tickers logged by LOGGER.exception
    csv,         \* run_scan: the output file
    stdout       \* run_scan: what was printed

vars == <<rs_arg, rs_ret, an_events, an_sorted, an_ret, sc_metrics, sc_daily,
          sc_ret, pc, tickers, idx, inputs, records, failed, csv, stdout>>

----------------------------------------------------------------------------
(* Bounds *)

HorizonDays == 14        \* announcement timestamps lie in days 0 .. HorizonDays-1
MaxEvents == 2           \* rows of an events table
MaxBars == 2             \* bars of an intraday series
MaxRecords == 4          \* rows of a reaction-metrics table
NumDates == 5            \* the provider has daily bars on days 0 .. NumDates-1
MaxTickers == 2          \* --top: the size of the universe

----------------------------------------------------------------------------
(* Exact arithmetic standing for Python floats *)

Abs(n) == IF n < 0 THEN -n ELSE n

RECURSIVE GCD(_, _)
GCD(a, b) == IF b = 0 THEN a ELSE GCD(b, a % b)

Absent == <<0, 0>>
Inf == <<1, 0>>

IsPresent(q) == q[2] # 0

\* n / d for d # 0, in lowest terms with a positive denominator
Rat(n, d) ==
    LET g == GCD(Abs(n), Abs(d))
        s == IF d < 0 THEN -1 ELSE 1
    IN  <<(s * n) \div g, (s * d) \div g>>

IsNaN(q) == q = <<0, 0>>

RAbs(q) == <<Abs(q[1]), q[2]>>

\* a < b on finite values and +inf
RLess(a, b) == a[1] * b[2] < b[1] * a[2]

RAdd(a, b) ==
    IF a[2] = 0 \/ b[2] = 0 THEN Inf
    ELSE Rat(a[1] * b[2] + b[1] * a[2], a[2] * b[2])

RMul(a, b) == Rat(a[1] * b[1], a[2] * b[2])

\* a / b for finite a and b > 0, b possibly +inf
RDiv(a, b) ==
    IF b[2] = 0 THEN <<0, 1>>
    ELSE Rat(a[1] * b[2], a[2] * b[1])

\* a / b in float arithmetic where b may be 0.0: numpy gives inf
RDivUnguarded(a, b) ==
    IF b[2] = 0 THEN <<0, 1>>
    ELSE IF b[1] = 0 THEN Inf
    ELSE Rat(a[1] * b[2], a[2] * b[1])

----------------------------------------------------------------------------
(* Calendar: intraday.py *)

\* date.weekday(): Monday = 0 .. Sunday = 6
Weekday(day) == day % 7

\* US/Eastern: UTC-5, and UTC-4 from the spring-forward instant
\* (a Sunday, 02:00 local = 07:00 UTC); the model has it on day 6.
DstStartUtc == 6 * 24 + 7

EasternOffset(utc) == IF utc >= DstStartUtc THEN -4 ELSE -5

\* A timestamp is [wall, aware, off]: the wall-clock hour count it shows,
\* whether it carries a zone, and that zone's offset from UTC (0 if naive).
NaT == [wall |-> 0, aware |-> FALSE, off |-> 99]

IsNaT(ts) == ts.off = 99

\* the timestamp mistaken for Eastern wall-clock time when it has no zone
normalize_timestamp_naive_local(value) ==
    IF value.aware
    THEN LET utc == value.wall - value.off IN utc + EasternOffset(utc)
    ELSE value.wall

\* _normalize_timestamp: tz_localize(utc) if naive, then tz_convert(EASTERN);
\* the result is the Eastern wall-clock hour count
_normalize_timestamp(value) ==
    LET utc == IF value.aware THEN value.wall - value.off ELSE value.wall
    IN  utc + EasternOffset(utc)

\* datetime.date(): the calendar day of an hour count
DateOf(hours) == hours \div 24

RECURSIVE SkipWeekendForward(_)
SkipWeekendForward(day) ==
    IF Weekday(day) >= 5 THEN SkipWeekendForward(day + 1) ELSE day

\* the loop skipping Sundays only
RECURSIVE SkipSundayForward(_)
SkipSundayForward(day) ==
    IF Weekday(day) > 5 THEN SkipSundayForward(day + 1) ELSE day

_next_trading_day_sunday_only(day) == SkipSundayForward(day + 1)

_next_trading_day(day) == SkipWeekendForward(day + 1)

RECURSIVE SkipWeekendBackward(_)
SkipWeekendBackward(day) ==
    IF Weekday(day) >= 5 THEN SkipWeekendBackward(day - 1) ELSE day

_previous_trading_day(day) == SkipWeekendBackward(day - 1)

\* str.upper() on the release flags the model uses
Upper(flag) ==
    CASE flag = "amc" -> "AMC"
      [] flag = "bmo" -> "BMO"
      [] OTHER -> flag

Supported == {"AMC", "BMO"}

\* get_session_day: [status, day]; status is "ok" or the exception raised
get_session_day(earnings_date, release_flag) ==
    LET flag == Upper(release_flag)
        earnings_ts == _normalize_timestamp(earnings_date)
    IN  IF flag \notin Supported
        THEN [status |-> "ValueError", day |-> 0]
        ELSE IF flag = "AMC"
             THEN [status |-> "ok", day |-> _next_trading_day(DateOf(earnings_ts))]
             ELSE [status |-> "ok", day |-> DateOf(earnings_ts)]

----------------------------------------------------------------------------
(* Provider requests: intraday.py *)

\* _request: response.raise_for_status(), then the JSON body's "results"
_request(response) ==
    IF response.status = "ok"
    THEN [status |-> "ok", results |-> response.results]
    ELSE [status |-> "HTTPError", results |-> <<>>]

\* get_intraday_window: the 5-minute bars of the session, possibly none
get_intraday_window(ticker, earnings_date, release_flag, response) ==
    IF Upper(release_flag) \notin Supported
    THEN [status |-> "ValueError", results |-> <<>>]
    ELSE _request(response)

\* get_previous_close: the close of the last daily row, None without rows
get_previous_close(ticker, session_day, response) ==
    LET data == _request(response)
    IN  IF data.status # "ok"
        THEN [status |-> data.status, close |-> Absent]
        ELSE IF data.results = <<>>
             THEN [status |-> "ok", close |-> Absent]
             ELSE [status |-> "ok",
                   close |-> Rat(data.results[Len(data.results)], 1)]

----------------------------------------------------------------------------
(* analyzer.py: EarningsReactionAnalyzer.analyze_ticker *)

RECURSIVE MaxHigh(_, _)
MaxHigh(bars, n) ==
    IF n = 1 THEN bars[1].high
    ELSE LET m == MaxHigh(bars, n - 1)
         IN  IF bars[n].high > m THEN bars[n].high ELSE m

RECURSIVE MinLow(_, _)
MinLow(bars, n) ==
    IF n = 1 THEN bars[1].low
    ELSE LET m == MinLow(bars, n - 1)
         IN  IF bars[n].low < m THEN bars[n].low ELSE m

\* the returns with a zero where the denominator is zero
reaction_metrics_zero_fill(open_price, close_price, high_price, low_price, prev_close) ==
    [gap_ret |-> IF IsPresent(prev_close) /\ prev_close[1] # 0
                 THEN Rat(open_price * prev_close[2] - prev_close[1], prev_close[1])
                 ELSE Absent,
     oc_ret |-> IF open_price # 0
                THEN Rat(close_price - open_price, open_price) ELSE <<0, 1>>,
     range_pct |-> IF open_price # 0
                   THEN Rat(high_price - low_price, open_price) ELSE <<0, 1>>]

\* analyzer.py lines 66-75: gap_ret, oc_ret and range_pct, pd.NA by default
reaction_metrics(open_price, close_price, high_price, low_price, prev_close) ==
    [gap_ret |-> IF IsPresent(prev_close) /\ prev_close[1] # 0
                 THEN Rat(open_price * prev_close[2] - prev_close[1], prev_close[1])
                 ELSE Absent,
     oc_ret |-> IF open_price # 0
                THEN Rat(close_price - open_price, open_price) ELSE Absent,
     range_pct |-> IF open_price # 0
                   THEN Rat(high_price - low_price, open_price) ELSE Absent]

\* One pass of the loop body: "continue" (skip), a record, or an exception.
analyze_event(ticker, event) ==
    LET release_flag == Upper(event.release_flag)
        earnings_date == event.earnings_date
        session == get_session_day(earnings_date, release_flag)
        intraday == get_intraday_window(ticker, earnings_date, release_flag,
                                        event.intraday)
        bars == intraday.results
        open_price == bars[1].open
        close_price == bars[Len(bars)].close
        high_price == MaxHigh(bars, Len(bars))
        low_price == MinLow(bars, Len(bars))
        prev == get_previous_close(ticker, session.day, event.daily)
        m == reaction_metrics(open_price, close_price, high_price, low_price,
                              prev.close)
        none == [ticker |-> ticker]
    IN  IF release_flag \notin Supported
        THEN [kind |-> "continue", record |-> none]
        ELSE IF IsNaT(earnings_date)
        THEN [kind |-> "continue", record |-> none]
        ELSE IF session.status # "ok"
        THEN [kind |-> session.status, record |-> none]
        ELSE IF intraday.status # "ok"
        THEN [kind |-> intraday.status, record |-> none]
        ELSE IF bars = <<>>
        THEN [kind |-> "continue", record |-> none]
        ELSE IF prev.status # "ok"
        THEN [kind |-> prev.status, record |-> none]
        ELSE [kind |-> "record",
              record |-> [ticker |-> ticker,
                          earnings_date |-> earnings_date,
                          release_flag |-> release_flag,
                          session_day |-> session.day,
                          gap_ret |-> m.gap_ret,
                          oc_ret |-> m.oc_ret,
                          range_pct |-> m.range_pct,
                          open |-> open_price,
                          close |-> close_price,
                          high |-> high_price,
                          low |-> low_price,
                          prev_close |-> prev.close]]

\* the loop leaving at the first skipped event
RECURSIVE analyze_loop_break(_, _, _, _)
analyze_loop_break(ticker, events_sorted, i, recs) ==
    IF i > Len(events_sorted)
    THEN [status |-> "ok", records |-> recs]
    ELSE LET step == analyze_event(ticker, events_sorted[i])
         IN  IF step.kind = "continue"
             THEN [status |-> "ok", records |-> recs]
             ELSE IF step.kind = "record"
             THEN analyze_loop_break(ticker, events_sorted, i + 1,
                                     Append(recs, step.record))
             ELSE [status |-> step.kind, records |-> <<>>]

\* for _, event in events_sorted.iterrows(): ...
RECURSIVE analyze_loop(_, _, _, _)
analyze_loop(ticker, events_sorted, i, recs) ==
    IF i > Len(events_sorted)
    THEN [status |-> "ok", records |-> recs]
    ELSE LET step == analyze_event(ticker, events_sorted[i])
         IN  IF step.kind = "continue"
             THEN analyze_loop(ticker, events_sorted, i + 1, recs)
             ELSE IF step.kind = "record"
             THEN analyze_loop(ticker, events_sorted, i + 1,
                               Append(recs, step.record))
             ELSE [status |-> step.kind, records |-> <<>>]

\* the sort key of events.sort_values("earnings_date")
SortKey(event) == event.earnings_date.wall - event.earnings_date.off

\* events.sort_values("earnings_date"): ascending, NaT rows last in their
\* original order; the default kind is quicksort, which is not stable, so
\* rows with equal timestamps may come out in any order.
sort_values(events) ==
    LET n == Len(events)
        perms == {p \in [1 .. n -> 1 .. n] : \A i, j \in 1 .. n : i # j => p[i] # p[j]}
        ok(p) == \A i, j \in 1 .. n :
                    i < j =>
                       LET a == events[p[i]]
                           b == events[p[j]]
                       IN  IF IsNaT(a.earnings_date)
                           THEN IsNaT(b.earnings_date) /\ p[i] < p[j]
                           ELSE IsNaT(b.earnings_date) \/ SortKey(a) <= SortKey(b)
    IN  {[i \in 1 .. n |-> events[p[i]]] : p \in {q \in perms : ok(q)}}

\* analyze_ticker, given the order the sort produced
analyze_ticker(ticker, events_sorted) ==
    IF events_sorted = <<>>
    THEN [status |-> "ok", records |-> <<>>]
    ELSE analyze_loop(ticker, events_sorted, 1, <<>>)

----------------------------------------------------------------------------
(* consistency.py: ConsistencyScorer *)

\* the dataclass fields sample_non_earnings_days (default 10) and
\* non_earnings_lookback_days (default 120), scaled to the model's calendar
sample_non_earnings_days == 2
non_earnings_lookback_days == 3

\* get_daily_bars: the provider's daily rows from start_day to end_day
get_daily_bars(ticker, start_day, end_day, response) ==
    LET data == _request(response)
        in_range(bar) == start_day <= bar.date /\ bar.date <= end_day
    IN  [status |-> data.status, results |-> SelectSeq(data.results, in_range)]

\* Series.sum()
RECURSIVE Sum(_, _)
Sum(values, n) ==
    IF n = 0 THEN <<0, 1>> ELSE RAdd(Sum(values, n - 1), values[n])

\* Series.mean()
Mean(values) == RMul(Sum(values, Len(values)), <<1, Len(values)>>)

\* the values in ascending order
RECURSIVE Insert(_, _)
Insert(sorted, v) ==
    IF sorted = <<>> THEN <<v>>
    ELSE IF RLess(v, sorted[1]) THEN <<v>> \o sorted
    ELSE <<sorted[1]>> \o Insert(Tail(sorted), v)

RECURSIVE Sorted(_, _)
Sorted(values, n) ==
    IF n = 0 THEN <<>> ELSE Insert(Sorted(values, n - 1), values[n])

\* Series.median(): NaN skipped; NaN when nothing is left
Median(values) ==
    LET present == SelectSeq(values, LAMBDA v : ~IsNaN(v))
        n == Len(present)
        s == Sorted(present, n)
    IN  IF n = 0 THEN Absent
        ELSE IF n % 2 = 1 THEN s[(n + 1) \div 2]
        ELSE RMul(RAdd(s[n \div 2], s[n \div 2 + 1]), <<1, 2>>)

\* Series.abs()
AbsColumn(values) == [i \in 1 .. Len(values) |-> RAbs(values[i])]

\* the column oc_ret of a table
OcColumn(rows) == [i \in 1 .. Len(rows) |-> rows[i].oc_ret]

\* close / open - 1 on a float column: inf or NaN where open is 0
DailyReturn(bar) ==
    IF bar.open # 0 THEN Rat(bar.close - bar.open, bar.open)
    ELSE IF bar.close = 0 THEN Absent
    ELSE Inf

\* sort_values("date", ascending=False).head(n): the n latest rows
RECURSIVE Latest(_, _)
Latest(rows, n) ==
    IF n = 0 \/ rows = <<>> THEN <<>>
    ELSE LET m == CHOOSE i \in 1 .. Len(rows) :
                      \A j \in 1 .. Len(rows) : rows[j].date <= rows[i].date
             rest == [k \in 1 .. (Len(rows) - 1) |->
                         IF k < m THEN rows[k] ELSE rows[k + 1]]
         IN  <<rows[m]>> \o Latest(rest, n - 1)

\* _median_abs_oc_non_earnings: [status, value, requests, warnings]
_median_abs_oc_non_earnings(ticker, events_metrics, response) ==
    LET session_days == {events_metrics[i].session_day : i \in 1 .. Len(events_metrics)}
        end_day == CHOOSE d \in session_days : \A e \in session_days : e <= d
        start_day == end_day - non_earnings_lookback_days
        daily_bars == get_daily_bars(ticker, start_day, end_day, response)
        mask(bar) == bar.date \notin session_days
        candidates == Latest(SelectSeq(daily_bars.results, mask),
                             sample_non_earnings_days)
        oc_ret == [i \in 1 .. Len(candidates) |-> DailyReturn(candidates[i])]
    IN  IF session_days = {}
        THEN [status |-> "ok", value |-> <<0, 1>>, requests |-> 0, warnings |-> 0]
        ELSE IF daily_bars.status # "ok"
        THEN [status |-> daily_bars.status, value |-> <<0, 1>>, requests |-> 1, warnings |-> 0]
        ELSE IF daily_bars.results = <<>>
        THEN [status |-> "ok", value |-> <<0, 1>>, requests |-> 1, warnings |-> 1]
        ELSE IF candidates = <<>>
        THEN [status |-> "ok", value |-> <<0, 1>>, requests |-> 1, warnings |-> 0]
        ELSE [status |-> "ok", value |-> Median(AbsColumn(oc_ret)), requests |-> 1, warnings |-> 0]

ZeroRecord ==
    [status |-> "ok", hit_main_dir |-> <<0, 1>>, big_move_hit |-> <<0, 1>>,
     boost |-> <<0, 1>>, score |-> <<0, 1>>, events_count |-> 0,
     non_earnings_median_abs |-> <<0, 1>>,
     requests |-> 0, warnings |-> 0]

SignOf(q) == IF q[1] > 0 THEN 1 ELSE IF q[1] < 0 THEN -1 ELSE 0

BigMove == <<2, 100>>

\* the ratio taken whatever the baseline is
boost_unguarded(earnings_median_abs, non_earnings_median_abs) ==
    RDivUnguarded(earnings_median_abs, non_earnings_median_abs)

\* consistency.py lines 68-71
boost_of(earnings_median_abs, non_earnings_median_abs) ==
    IF ~IsNaN(non_earnings_median_abs) /\ non_earnings_median_abs[1] > 0
    THEN RDiv(earnings_median_abs, non_earnings_median_abs)
    ELSE <<0, 1>>

\* the count of the rows passed in
events_count_raw(events_metrics, valid_events) == Len(events_metrics)

\* consistency.py line 39
events_count_of(events_metrics, valid_events) == Len(valid_events)

\* a zero oc_ret counted as a positive one
hit_main_dir_zero_positive(oc) ==
    LET mean_oc == Mean(oc)
        sign_mean == SignOf(mean_oc)
    IN  IF sign_mean = 0 THEN <<0, 1>>
        ELSE Rat(Cardinality({i \in 1 .. Len(oc) :
                                 (IF oc[i][1] >= 0 THEN 1 ELSE -1) = sign_mean}),
                 Len(oc))

\* consistency.py lines 51-62
hit_main_dir_of(oc) ==
    LET mean_oc == Mean(oc)
        sign_mean == SignOf(mean_oc)
    IN  IF sign_mean = 0 THEN <<0, 1>>
        ELSE Rat(Cardinality({i \in 1 .. Len(oc) : SignOf(oc[i]) = sign_mean}),
                 Len(oc))

\* the threshold taken strictly
big_move_hit_strict(oc) ==
    Rat(Cardinality({i \in 1 .. Len(oc) : RLess(BigMove, RAbs(oc[i]))}), Len(oc))

\* consistency.py line 64
big_move_hit_of(oc) ==
    Rat(Cardinality({i \in 1 .. Len(oc) : ~RLess(RAbs(oc[i]), BigMove)}), Len(oc))

\* consistency.py line 73
score_of(hit_main_dir, big_move_hit, boost) ==
    RAdd(RAdd(RMul(<<1, 2>>, hit_main_dir), RMul(<<3, 10>>, big_move_hit)),
         RMul(<<1, 5>>, boost))

\* score: the series returned, with the baseline the call computed (the
\* local non_earnings_median_abs), the requests made and warnings logged
score(ticker, events_metrics, response) ==
    LET valid_events == SelectSeq(events_metrics, LAMBDA r : IsPresent(r.oc_ret))
        events_count == events_count_of(events_metrics, valid_events)
        oc == OcColumn(valid_events)
        hit_main_dir == hit_main_dir_of(oc)
        big_move_hit == big_move_hit_of(oc)
        earnings_median_abs == Median(AbsColumn(oc))
        baseline == _median_abs_oc_non_earnings(ticker, valid_events, response)
        boost == boost_of(earnings_median_abs, baseline.value)
    IN  IF events_metrics = <<>> THEN ZeroRecord
        ELSE IF Len(valid_events) = 0 THEN ZeroRecord
        ELSE IF baseline.status # "ok"
        THEN [ZeroRecord EXCEPT !.status = baseline.status,
                                !.requests = baseline.requests]
        ELSE [status |-> "ok",
              hit_main_dir |-> hit_main_dir,
              big_move_hit |-> big_move_hit,
              boost |-> boost,
              score |-> score_of(hit_main_dir, big_move_hit, boost),
              events_count |-> events_count,
              non_earnings_median_abs |-> baseline.value,
              requests |-> baseline.requests,
              warnings |-> baseline.warnings]

----------------------------------------------------------------------------
(* earnings.py: YahooEarningsFetcher.fetch *)

\* datetime.now(timezone.utc) - timedelta(days=365 * lookback_years), in hours
Cutoff == 4 * 24

\* fetch: the rows not older than the cutoff, NaT rows dropped, sorted by
\* earnings_date; the set of the orders the sort may produce
fetch(ticker, response) ==
    IF response.status # "ok"
    THEN {[status |-> response.status, events |-> <<>>]}
    ELSE LET kept == SelectSeq(response.results,
                       LAMBDA e : ~IsNaT(e.earnings_date) /\ SortKey(e) >= Cutoff)
         IN  {[status |-> "ok", events |-> ordered] : ordered \in sort_values(kept)}

----------------------------------------------------------------------------
(* cli.py: run_scan *)

\* _safe_numeric_mean: the mean of the values present, pd.NA without any
_safe_numeric_mean(series) ==
    LET numeric == SelectSeq(series, IsPresent)
    IN  IF series = <<>> \/ numeric = <<>> THEN Absent ELSE Mean(numeric)

\* the body of the try block for one ticker, given the events fetched and
\* the order analyze_ticker's sort gave them: a row, or the exception
process_ticker(ticker, fetched, events_sorted, daily) ==
    LET metrics == analyze_ticker(ticker, events_sorted)
        score_series == score(ticker, metrics.records, daily)
        rows == metrics.records
        none == [ticker |-> ticker]
    IN  IF fetched.status # "ok"
        THEN [status |-> fetched.status, row |-> none]
        ELSE IF metrics.status # "ok"
        THEN [status |-> metrics.status, row |-> none]
        ELSE IF score_series.status # "ok"
        THEN [status |-> score_series.status, row |-> none]
        ELSE [status |-> "ok",
              row |-> [ticker |-> ticker,
                       events_count |-> score_series.events_count,
                       hit_main_dir |-> score_series.hit_main_dir,
                       big_move_hit |-> score_series.big_move_hit,
                       boost |-> score_series.boost,
                       score |-> score_series.score,
                       mean_gap |-> _safe_numeric_mean(
                                       [i \in 1 .. Len(rows) |-> rows[i].gap_ret]),
                       mean_oc |-> _safe_numeric_mean(
                                       [i \in 1 .. Len(rows) |-> rows[i].oc_ret]),
                       mean_range |-> _safe_numeric_mean(
                                       [i \in 1 .. Len(rows) |-> rows[i].range_pct])]]

\* the outcomes one ticker can have with the providers answering as in input
ticker_outcomes(ticker, input) ==
    UNION {{process_ticker(ticker, fetched, events_sorted, input.daily) :
               events_sorted \in sort_values(fetched.events)} :
           fetched \in fetch(ticker, input.earnings)}

\* the except clause discarding the rows collected so far
scan_step_reset(outcome) ==
    IF outcome.status = "ok"
    THEN /\ records' = Append(records, outcome.row)
         /\ failed' = failed
    ELSE /\ records' = <<>>
         /\ failed' = Append(failed, outcome.row.ticker)

\* cli.py lines 60-78: records.append(record), or the except clause
scan_step(outcome) ==
    IF outcome.status = "ok"
    THEN /\ records' = Append(records, outcome.row)
         /\ failed' = failed
    ELSE /\ records' = records
         /\ failed' = Append(failed, outcome.row.ticker)

\* results.sort_values("score", ascending=False): the orders it may produce
sort_by_score(rows) ==
    LET n == Len(rows)
        perms == {p \in [1 .. n -> 1 .. n] : \A i, j \in 1 .. n : i # j => p[i] # p[j]}
        ok(p) == \A i, j \in 1 .. n :
                    i < j => ~RLess(rows[p[i]].score, rows[p[j]].score)
    IN  {[i \in 1 .. n |-> rows[p[i]]] : p \in {q \in perms : ok(q)}}

\* results.head(10)
Top10 == 10

head(rows, n) == SubSeq(rows, 1, IF Len(rows) < n THEN Len(rows) ELSE n)

\* top10[["ticker", "score", "hit_main_dir", "big_move_hit", "boost"]]
printed_columns(rows) ==
    [i \in 1 .. Len(rows) |->
        [ticker |-> rows[i].ticker, score |-> rows[i].score,
         hit_main_dir |-> rows[i].hit_main_dir,
         big_move_hit |-> rows[i].big_move_hit, boost |-> rows[i].boost]]

----------------------------------------------------------------------------
(* Each component is specified on its own: the variables of the others stay
   at rest. *)

sessionVars == <<rs_arg, rs_ret>>
analyzerVars == <<an_events, an_sorted, an_ret>>
scorerVars == <<sc_metrics, sc_daily, sc_ret>>
scanVars == <<pc, tickers, idx, inputs, records, failed, csv, stdout>>

NotCalled == [status |-> "not called", day |-> 0]

SessionIdle ==
    /\ rs_arg = [earnings_date |-> NaT, release_flag |-> ""]
    /\ rs_ret = NotCalled

AnalyzerIdle ==
    /\ an_events = <<>>
    /\ an_sorted = <<>>
    /\ an_ret = [status |-> "idle", records |-> <<>>]

ScorerIdle ==
    /\ sc_metrics = <<>>
    /\ sc_daily = [status |-> "ok", results |-> <<>>]
    /\ sc_ret = [ZeroRecord EXCEPT !.status = "idle"]

NoFile == [written |-> FALSE, rows |-> <<>>]

ScanIdle ==
    /\ pc = "idle"
    /\ tickers = <<>>
    /\ idx = 0
    /\ inputs = <<>>
    /\ records = <<>>
    /\ failed = <<>>
    /\ csv = NoFile
    /\ stdout = <<>>

----------------------------------------------------------------------------
(* Specification of the session resolver: every timestamp and flag *)

ZoneOffsets == {0, -5, 9}

Timestamps ==
    [wall : 0 .. (HorizonDays * 24 - 1), aware : {FALSE}, off : {0}]
    \cup [wall : 0 .. (HorizonDays * 24 - 1), aware : {TRUE}, off : ZoneOffsets]

ResolverFlags == {"AMC", "BMO", "amc", "bmo", "TAS", ""}

InitSession ==
    /\ rs_arg \in [earnings_date : Timestamps, release_flag : ResolverFlags]
    /\ rs_ret = NotCalled
    /\ AnalyzerIdle
    /\ ScorerIdle
    /\ ScanIdle

ResolveSession ==
    /\ rs_ret = NotCalled
    /\ rs_ret' = get_session_day(rs_arg.earnings_date, rs_arg.release_flag)
    /\ UNCHANGED <<rs_arg, analyzerVars, scorerVars, scanVars>>

NextSession == ResolveSession

SpecSession == InitSession /\ [][NextSession]_vars

----------------------------------------------------------------------------
(* Specifications of the analyzer *)

Utc(day, hour) == [wall |-> day * 24 + hour, aware |-> TRUE, off |-> 0]

Bar(o, h, l, c) == [open |-> o, high |-> h, low |-> l, close |-> c]

Ok(results) == [status |-> "ok", results |-> results]
HTTPError == [status |-> "HTTPError", results |-> <<>>]

\* Friday 16:00, Saturday 11:00 and Sunday 22:00 on the exchange's clock
AnalyzeTimestamps == {NaT, Utc(4, 21), Utc(5, 15), Utc(7, 2)}

AnalyzeFlags == {"AMC", "BMO", "amc", "TNS", "<NA>"}

ExampleBars == <<Bar(100, 104, 99, 103), Bar(103, 110, 95, 105)>>

\* the provider's answers for an event: no bars, bars and a previous close,
\* bars and a failing previous-close request, a failing bars request
AnalyzeEvents ==
    [earnings_date : AnalyzeTimestamps,
     release_flag : AnalyzeFlags,
     intraday : {Ok(<<>>), Ok(ExampleBars), HTTPError},
     daily : {Ok(<<98>>)}]
    \cup [earnings_date : AnalyzeTimestamps,
          release_flag : AnalyzeFlags,
          intraday : {Ok(ExampleBars)},
          daily : {HTTPError}]

SeqsUpTo(S, n) == UNION {[1 .. k -> S] : k \in 0 .. n}

InitAnalyze ==
    /\ an_events \in SeqsUpTo(AnalyzeEvents, MaxEvents)
    /\ an_sorted = <<>>
    /\ an_ret = [status |-> "not called", records |-> <<>>]
    /\ SessionIdle
    /\ ScorerIdle
    /\ ScanIdle

Prices == [open : {0, 100}, high : {105, 110}, low : {0, 95}, close : {100, 105}]

BarSet == {b \in Prices : b.low <= b.open}

MetricsEvents ==
    [earnings_date : {Utc(4, 21)},
     release_flag : {"AMC"},
     intraday : {Ok(bars) : bars \in SeqsUpTo(BarSet, MaxBars) \ {<<>>}},
     daily : {Ok(<<>>), Ok(<<0>>), Ok(<<98>>), Ok(<<97, 98>>), HTTPError}]

InitMetrics ==
    /\ an_events \in [1 .. 1 -> MetricsEvents]
    /\ an_sorted = <<>>
    /\ an_ret = [status |-> "not called", records |-> <<>>]
    /\ SessionIdle
    /\ ScorerIdle
    /\ ScanIdle

AnalyzeTicker ==
    /\ an_ret.status = "not called"
    /\ \E events_sorted \in sort_values(an_events) :
          /\ an_sorted' = events_sorted
          /\ an_ret' = analyze_ticker("T", events_sorted)
    /\ UNCHANGED <<an_events, sessionVars, scorerVars, scanVars>>

NextAnalyze == AnalyzeTicker

SpecAnalyze == InitAnalyze /\ [][NextAnalyze]_vars

SpecMetrics == InitMetrics /\ [][NextAnalyze]_vars

----------------------------------------------------------------------------
(* Specifications of the scorer *)

Pct(n) == Rat(n, 100)

\* oc_ret of a record: missing, or a return in percent
OcValues == {Absent, Pct(0 - 3), Pct(0), Pct(2), Pct(3), Pct(5)}

SessionDays == {NumDates - 2, NumDates - 1}

MetricRecords == [oc_ret : OcValues, session_day : SessionDays]

\* tables in the order analyze_ticker builds them, by time
MetricTables(S, n) ==
    {t \in SeqsUpTo(S, n) :
        \A i, j \in 1 .. Len(t) : i < j => t[i].session_day <= t[j].session_day}

DailyBar(d, o, c) == [date |-> d, open |-> o, close |-> c]

\* the daily rows of one date: none, a flat day, a 1% day, a day opening at 0
DailyChoices(d) ==
    {<<>>, <<DailyBar(d, 100, 100)>>, <<DailyBar(d, 100, 101)>>, <<DailyBar(d, 0, 100)>>}

\* daily series ascending by date, at most one row a date
RECURSIVE DailySeries(_)
DailySeries(n) ==
    IF n = 0 THEN {<<>>}
    ELSE {s \o c : s \in DailySeries(n - 1), c \in DailyChoices(n - 1)}

\* the daily series of a few markets: no rows, 1% days, flat days
ScoreMarkets ==
    {Ok(<<>>),
     Ok([d \in 1 .. NumDates |-> DailyBar(d - 1, 100, 101)]),
     Ok([d \in 1 .. NumDates |-> DailyBar(d - 1, 100, 100)]),
     HTTPError}

NoScore == [ZeroRecord EXCEPT !.status = "not called"]

InitScore ==
    /\ sc_metrics \in MetricTables(MetricRecords, MaxRecords)
    /\ sc_daily \in ScoreMarkets
    /\ sc_ret = NoScore
    /\ SessionIdle
    /\ AnalyzerIdle
    /\ ScanIdle

BaselineRecords == [oc_ret : {Absent, Pct(3)}, session_day : SessionDays]

InitBaseline ==
    /\ sc_metrics \in SeqsUpTo(BaselineRecords, MaxEvents)
    /\ sc_daily \in {Ok(s) : s \in DailySeries(NumDates)} \cup {HTTPError}
    /\ sc_ret = NoScore
    /\ SessionIdle
    /\ AnalyzerIdle
    /\ ScanIdle

Score ==
    /\ sc_ret.status = "not called"
    /\ sc_ret' = score("T", sc_metrics, sc_daily)
    /\ UNCHANGED <<sc_metrics, sc_daily, sessionVars, analyzerVars, scanVars>>

NextScore == Score

SpecScore == InitScore /\ [][NextScore]_vars

SpecBaseline == InitBaseline /\ [][NextScore]_vars

----------------------------------------------------------------------------
(* Specification of the scan *)

\* the universe provider's ranking; --top takes a prefix of it
Ranking == <<"AAA", "BBB", "CCC", "DDD", "EEE">>

DownBars == <<Bar(100, 101, 96, 97)>>

OnePctDays == [d \in 1 .. NumDates + 4 |-> DailyBar(d - 1, 100, 101)]

\* events of a ticker's history: an AMC release with bars, a BMO release
\* with bars, one whose bars request fails, one older than the cutoff
ScanEvents ==
    {[earnings_date |-> Utc(4, 21), release_flag |-> "AMC",
      intraday |-> Ok(ExampleBars), daily |-> Ok(<<98>>)],
     [earnings_date |-> Utc(8, 11), release_flag |-> "BMO",
      intraday |-> Ok(DownBars), daily |-> Ok(<<>>)],
     [earnings_date |-> Utc(9, 21), release_flag |-> "AMC",
      intraday |-> HTTPError, daily |-> Ok(<<98>>)],
     [earnings_date |-> Utc(3, 21), release_flag |-> "AMC",
      intraday |-> Ok(DownBars), daily |-> Ok(<<98>>)]}

\* histories: each event at most once, in any order
Histories ==
    {h \in SeqsUpTo(ScanEvents, MaxEvents) :
        \A i, j \in 1 .. Len(h) : i # j => h[i] # h[j]}

\* what the providers answer for one ticker
ScanInputs ==
    [earnings : {Ok(h) : h \in Histories} \cup {HTTPError},
     daily : {Ok(<<>>), Ok(OnePctDays), HTTPError}]

Init ==
    /\ pc = "start"
    /\ tickers = <<>>
    /\ idx = 0
    /\ inputs = <<>>
    /\ records = <<>>
    /\ failed = <<>>
    /\ csv = NoFile
    /\ stdout = <<>>
    /\ SessionIdle
    /\ AnalyzerIdle
    /\ ScorerIdle

\* cli.py lines 47-53: PolygonIntradayClient() needs POLYGON_API_KEY
Configure ==
    /\ pc = "start"
    /\ \E api_key \in BOOLEAN :
          pc' = IF api_key THEN "universe" ELSE "EnvironmentError"
    /\ UNCHANGED <<tickers, idx, inputs, records, failed, csv, stdout,
                   sessionVars, analyzerVars, scorerVars>>

\* cli.py line 55: builder.fetch(top_n=top), outside any try block
FetchUniverse ==
    /\ pc = "universe"
    /\ \E response \in {Ok(SubSeq(Ranking, 1, n)) : n \in 0 .. MaxTickers} \cup {HTTPError} :
          IF response.status = "ok"
          THEN /\ tickers' = response.results
               /\ pc' = "loop"
          ELSE /\ tickers' = tickers
               /\ pc' = response.status
    /\ UNCHANGED <<idx, inputs, records, failed, csv, stdout,
                   sessionVars, analyzerVars, scorerVars>>

\* cli.py lines 59-78: one pass of the loop over the tickers
ProcessTicker ==
    /\ pc = "loop"
    /\ idx < Len(tickers)
    /\ \E input \in ScanInputs :
          \E outcome \in ticker_outcomes(tickers[idx + 1], input) :
              /\ inputs' = Append(inputs, input)
              /\ scan_step(outcome)
    /\ idx' = idx + 1
    /\ UNCHANGED <<pc, tickers, csv, stdout, sessionVars, analyzerVars, scorerVars>>

\* cli.py lines 80-95: after the loop
Finish ==
    /\ pc = "loop"
    /\ idx = Len(tickers)
    /\ IF records = <<>>
       THEN /\ pc' = "returned"
            /\ UNCHANGED <<csv, stdout>>
       ELSE \E results \in sort_by_score(records) :
               /\ csv' = [written |-> TRUE, rows |-> results]
               /\ stdout' = printed_columns(head(results, Top10))
               /\ pc' = "returned"
    /\ UNCHANGED <<tickers, idx, inputs, records, failed,
                   sessionVars, analyzerVars, scorerVars>>

Next == Configure \/ FetchUniverse \/ ProcessTicker \/ Finish

Spec == Init /\ [][Next]_vars

\* run_scan is one sequential call: whenever a step of it can run, it runs
FairSpec == Spec /\ WF_vars(Next)

----------------------------------------------------------------------------
(* Claims about the session resolver *)

\* the instant of the announcement in UTC hours: a timestamp without a zone
\* is read as UTC
InstantUtc(ts) == IF ts.aware THEN ts.wall - ts.off ELSE ts.wall

\* d is the announcement's calendar date on the exchange's clock
IsLocalDate(ts, d) ==
    LET local == InstantUtc(ts) + (IF InstantUtc(ts) >= DstStartUtc THEN -4 ELSE -5)
    IN  d * 24 <= local /\ local < (d + 1) * 24

DayRange == (0 - 2) .. (HorizonDays + 4)

Resolved(flag) == rs_ret.status = "ok" /\ Upper(rs_arg.release_flag) = flag

\* C1: with flag AMC the session day is the first Monday-to-Friday day
\* strictly after the announcement's calendar date.
C1_AmcNextWeekday ==
    Resolved("AMC") =>
        \A d \in DayRange :
            IsLocalDate(rs_arg.earnings_date, d) =>
                /\ rs_ret.day > d
                /\ Weekday(rs_ret.day) \notin {5, 6}
                /\ \A e \in DayRange : (d < e /\ e < rs_ret.day) => Weekday(e) \in {5, 6}

\* an AMC announcement on a Friday resolved across the weekend
C1_Witness ==
    /\ Resolved("AMC")
    /\ \E d \in DayRange :
          /\ IsLocalDate(rs_arg.earnings_date, d)
          /\ Weekday(d) = 4
          /\ rs_ret.day = d + 3

\* C3: with flag BMO the session day is the announcement's calendar date on
\* the exchange's clock, a timestamp without a zone being read as UTC.
C3_BmoSameDay ==
    Resolved("BMO") => IsLocalDate(rs_arg.earnings_date, rs_ret.day)

\* a BMO announcement without a zone, early in the UTC day: the exchange's
\* date is the day before the date the timestamp shows
C3_Witness ==
    /\ Resolved("BMO")
    /\ ~rs_arg.earnings_date.aware
    /\ rs_ret.day = DateOf(rs_arg.earnings_date.wall) - 1

----------------------------------------------------------------------------
(* Claims about the analyzer *)

Returned == an_ret.status = "ok"

\* C2: the session day stored in a reaction record is never a Saturday or
\* a Sunday, whichever supported flag the event has.
C2_NoWeekendSession ==
    \A k \in 1 .. Len(an_ret.records) :
        Weekday(an_ret.records[k].session_day) \notin {5, 6}

\* the requests for the event are made: its flag is supported once
\* upper-cased and its timestamp is present
Requested(e) ==
    /\ Upper(e.release_flag) \in {"AMC", "BMO"}
    /\ ~IsNaT(e.earnings_date)

\* the event has all a record needs
Eligible(e) ==
    /\ Requested(e)
    /\ e.intraday.status = "ok"
    /\ e.intraday.results # <<>>

\* a request made for the event fails in transport
TransportFails(e) ==
    /\ Requested(e)
    /\ \/ e.intraday.status # "ok"
       \/ e.intraday.results # <<>> /\ e.daily.status # "ok"

\* C4: analyze_ticker returns one record for each event with a supported
\* flag, a present timestamp and a non-empty bar series, in the order of
\* events_sorted, and no other record; it raises only when a request made
\* for an event fails in transport, never because an event is skipped.
C4_OneRecordPerEligibleEvent ==
    an_ret.status # "not called" =>
        LET eligible == {i \in 1 .. Len(an_sorted) : Eligible(an_sorted[i])}
            recs == an_ret.records
        IN  /\ Returned <=> ~(\E i \in 1 .. Len(an_events) : TransportFails(an_events[i]))
            /\ Returned =>
                 /\ Len(recs) = Cardinality(eligible)
                 /\ \A i \in eligible :
                       LET k == Cardinality({j \in eligible : j <= i})
                       IN  /\ recs[k].ticker = "T"
                           /\ recs[k].earnings_date = an_sorted[i].earnings_date
                           /\ recs[k].release_flag = Upper(an_sorted[i].release_flag)

\* a skipped event followed by an event that gets its record
C4_Witness ==
    /\ Returned
    /\ Len(an_sorted) = 2
    /\ ~Eligible(an_sorted[1])
    /\ Eligible(an_sorted[2])
    /\ Len(an_ret.records) = 1

\* C5: in a record, open, close, high and low are the first open, the last
\* close, the greatest high and the least low of the bars; gap_ret is
\* open/prev_close - 1 exactly when the previous close is present and not
\* zero; oc_ret = close/open - 1 and range_pct = (high - low)/open exactly
\* when open is not zero; otherwise the value is absent.
C5_ReactionMetrics ==
    \A k \in 1 .. Len(an_ret.records) :
        LET r == an_ret.records[k]
            bars == an_events[1].intraday.results
            rows == an_events[1].daily.results
            has_prev == rows # <<>>
            prev == rows[Len(rows)]
        IN  /\ r.open = bars[1].open
            /\ r.close = bars[Len(bars)].close
            /\ \A j \in 1 .. Len(bars) : bars[j].high <= r.high /\ bars[j].low >= r.low
            /\ \E j \in 1 .. Len(bars) : bars[j].high = r.high
            /\ \E j \in 1 .. Len(bars) : bars[j].low = r.low
            /\ IsPresent(r.gap_ret) <=> (has_prev /\ prev # 0)
            /\ IsPresent(r.gap_ret) =>
                  r.gap_ret[1] * prev = (r.open - prev) * r.gap_ret[2]
            /\ IsPresent(r.oc_ret) <=> r.open # 0
            /\ IsPresent(r.range_pct) <=> r.open # 0
            /\ r.open # 0 =>
                  /\ r.oc_ret[1] * r.open = (r.close - r.open) * r.oc_ret[2]
                  /\ r.range_pct[1] * r.open = (r.high - r.low) * r.range_pct[2]
            /\ r.open = 0 => r.oc_ret = Absent /\ r.range_pct = Absent
            /\ (r.open = 100 /\ r.high = 110 /\ r.low = 95 /\ r.close = 105) =>
                  r.oc_ret = <<1, 20>> /\ r.range_pct = <<3, 20>>

\* the record of open=100, high=110, low=95, close=105, previous close 98
C5_Witness ==
    /\ Returned
    /\ Len(an_ret.records) = 1
    /\ LET r == an_ret.records[1]
       IN  /\ r.open = 100 /\ r.high = 110 /\ r.low = 95 /\ r.close = 105
           /\ r.prev_close = <<98, 1>>
           /\ r.gap_ret = <<1, 49>>
           /\ r.oc_ret = <<1, 20>>
           /\ r.range_pct = <<3, 20>>

\* a record of a session that opened at zero, with no previous close
C5_WitnessZeroOpen ==
    /\ Returned
    /\ Len(an_ret.records) = 1
    /\ an_ret.records[1].open = 0
    /\ an_ret.records[1].oc_ret = Absent
    /\ an_ret.records[1].gap_ret = Absent

----------------------------------------------------------------------------
(* Claims about the scorer *)

Scored == sc_ret.status = "ok"

\* the rows of the table whose oc_ret is present
ValidRows == {i \in 1 .. Len(sc_metrics) : IsPresent(sc_metrics[i].oc_ret)}

\* oc_ret of row i in hundredths (the tables hold whole percents)
OcPct(i) == (sc_metrics[i].oc_ret[1] * 100) \div sc_metrics[i].oc_ret[2]

RECURSIVE SumPct(_)
SumPct(rows) ==
    IF rows = {} THEN 0
    ELSE LET i == CHOOSE r \in rows : TRUE IN OcPct(i) + SumPct(rows \ {i})

\* C6: without a record whose oc_ret is present (the empty table included)
\* score returns the zero-record and requests no daily bars; otherwise
\* events_count is the number of records whose oc_ret is present.
C6_ZeroRecord ==
    sc_ret.status # "not called" =>
        /\ ValidRows = {} =>
              /\ Scored
              /\ sc_ret.hit_main_dir = <<0, 1>>
              /\ sc_ret.big_move_hit = <<0, 1>>
              /\ sc_ret.boost = <<0, 1>>
              /\ sc_ret.score = <<0, 1>>
              /\ sc_ret.events_count = 0
              /\ sc_ret.requests = 0
        /\ (ValidRows # {} /\ Scored) => sc_ret.events_count = Cardinality(ValidRows)

\* a table with rows, some without oc_ret, scored on the rows that have it
C6_Witness ==
    /\ Scored
    /\ Len(sc_metrics) = 3
    /\ Cardinality(ValidRows) = 2
    /\ sc_ret.events_count = 2
    /\ sc_ret.requests = 1

\* a table with rows, none with oc_ret: the zero-record, no request
C6_WitnessAllAbsent ==
    /\ Scored
    /\ Len(sc_metrics) = 2
    /\ ValidRows = {}
    /\ sc_daily.results # <<>>
    /\ sc_ret = ZeroRecord

\* C7: hit_main_dir is 0 when the mean of the present oc_ret values is 0,
\* and otherwise the fraction of them whose sign is the sign of the mean, a
\* zero oc_ret matching neither sign.
C7_HitMainDir ==
    (Scored /\ ValidRows # {}) =>
        LET total == SumPct(ValidRows)
            n == Cardinality(ValidRows)
            same == {i \in ValidRows :
                        \/ total > 0 /\ OcPct(i) > 0
                        \/ total < 0 /\ OcPct(i) < 0}
        IN  /\ total = 0 => sc_ret.hit_main_dir = <<0, 1>>
            /\ total # 0 =>
                  sc_ret.hit_main_dir[1] * n = Cardinality(same) * sc_ret.hit_main_dir[2]
            /\ (\A i \in ValidRows : OcPct(i) > 0) => sc_ret.hit_main_dir = <<1, 1>>

\* half of the values positive, half negative, the mean zero
C7_Witness ==
    /\ Scored
    /\ Cardinality(ValidRows) = 4
    /\ Cardinality({i \in ValidRows : OcPct(i) > 0}) = 2
    /\ Cardinality({i \in ValidRows : OcPct(i) < 0}) = 2
    /\ SumPct(ValidRows) = 0
    /\ sc_ret.hit_main_dir = <<0, 1>>

\* a zero oc_ret beside positive ones: it does not count as a hit
C7_WitnessZeroRow ==
    /\ Scored
    /\ Cardinality(ValidRows) = 2
    /\ \E i \in ValidRows : OcPct(i) = 0
    /\ \E i \in ValidRows : OcPct(i) > 0
    /\ sc_ret.hit_main_dir = <<1, 2>>

\* the daily rows the baseline is sampled from: in the lookback window that
\* ends at the latest session day of a valid row, not on a session day
BaselineCandidates ==
    LET days == {sc_metrics[i].session_day : i \in ValidRows}
        rows == sc_daily.results
    IN  {k \in 1 .. Len(rows) :
            /\ rows[k].date \notin days
            /\ \E d \in days :
                  /\ \A e \in days : e <= d
                  /\ d - non_earnings_lookback_days <= rows[k].date
                  /\ rows[k].date <= d}

ValidTable == SelectSeq(sc_metrics, LAMBDA r : IsPresent(r.oc_ret))

EarningsMedian == Median(AbsColumn(OcColumn(ValidTable)))

BaselineMedian == _median_abs_oc_non_earnings("T", ValidTable, sc_daily).value

\* C8: boost is 0 when the baseline median is zero or unavailable (no daily
\* rows, or none left after the exclusion), whatever the earnings median;
\* it is earnings median / baseline median when the baseline is positive.
C8_Boost ==
    (Scored /\ ValidRows # {}) =>
        /\ (BaselineCandidates = {} \/ BaselineMedian[1] = 0) => sc_ret.boost = <<0, 1>>
        /\ (BaselineMedian[1] > 0 /\ BaselineMedian[2] > 0) =>
              sc_ret.boost[1] * BaselineMedian[1] * EarningsMedian[2]
                 = EarningsMedian[1] * BaselineMedian[2] * sc_ret.boost[2]
        /\ sc_ret.boost[2] # 0

\* flat non-earnings days: the baseline median is zero, the earnings median
\* is not, and boost is 0
C8_Witness ==
    /\ Scored
    /\ ValidRows # {}
    /\ BaselineCandidates # {}
    /\ BaselineMedian = <<0, 1>>
    /\ EarningsMedian = <<3, 100>>
    /\ sc_ret.boost = <<0, 1>>

\* every daily row in the window is on a session day: no candidate is left
C8_WitnessExcluded ==
    /\ Scored
    /\ ValidRows # {}
    /\ sc_daily.results # <<>>
    /\ BaselineCandidates = {}
    /\ \E k \in 1 .. Len(sc_daily.results) :
          \E i \in ValidRows : sc_daily.results[k].date = sc_metrics[i].session_day
    /\ sc_ret.boost = <<0, 1>>

\* a positive baseline: boost is the ratio
C8_WitnessRatio ==
    /\ Scored
    /\ BaselineMedian = <<1, 100>>
    /\ sc_ret.boost = <<3, 1>>

BigRows == {i \in ValidRows : OcPct(i) >= 2 \/ OcPct(i) <= 0 - 2}

\* C9: with at least one present oc_ret, score = 0.5*hit_main_dir +
\* 0.3*big_move_hit + 0.2*boost of the returned series, and big_move_hit is
\* the fraction of present values with |oc_ret| >= 0.02.
C9_Score ==
    (Scored /\ ValidRows # {}) =>
        LET h == sc_ret.hit_main_dir
            b == sc_ret.big_move_hit
            x == sc_ret.boost
            n == Cardinality(ValidRows)
        IN  /\ sc_ret.score[1] * 10 * h[2] * b[2] * x[2]
                  = sc_ret.score[2] * (5 * h[1] * b[2] * x[2]
                                       + 3 * b[1] * h[2] * x[2]
                                       + 2 * x[1] * h[2] * b[2])
            /\ b[1] * n = Cardinality(BigRows) * b[2]
            /\ (n = 4 /\ Cardinality(BigRows) = 3
                  /\ EarningsMedian = <<3, 100>> /\ BaselineMedian = <<1, 100>>) =>
                  b = <<3, 4>> /\ x = <<3, 1>>

\* 4 valid events, 3 of them big moves, earnings median 0.03, baseline 0.01
C9_Witness ==
    /\ Scored
    /\ Cardinality(ValidRows) = 4
    /\ Cardinality(BigRows) = 3
    /\ EarningsMedian = <<3, 100>>
    /\ BaselineMedian = <<1, 100>>
    /\ sc_ret.big_move_hit = <<3, 4>>
    /\ sc_ret.boost = <<3, 1>>
    /\ sc_ret.hit_main_dir = <<3, 4>>
    /\ sc_ret.score = <<6, 5>>

\* a value of exactly 0.02 counts as a big move
C9_WitnessThreshold ==
    /\ Scored
    /\ Cardinality(ValidRows) = 1
    /\ \A i \in ValidRows : OcPct(i) = 2
    /\ sc_ret.big_move_hit = <<1, 1>>

----------------------------------------------------------------------------
(* Claims about the scan *)

\* the events of a history that reach the analyzer
Kept(input) ==
    {k \in 1 .. Len(input.earnings.results) :
        LET e == input.earnings.results[k]
        IN  ~IsNaT(e.earnings_date) /\ e.earnings_date.wall - e.earnings_date.off >= Cutoff}

\* processing the ticker raises: the earnings request fails, a request for
\* one of its events fails, or the daily-bars request of the scorer fails
Fails(input) ==
    \/ input.earnings.status # "ok"
    \/ \E k \in Kept(input) : TransportFails(input.earnings.results[k])
    \/ /\ input.daily.status # "ok"
       /\ \E k \in Kept(input) :
             LET e == input.earnings.results[k]
             IN  Eligible(e) /\ e.intraday.results[1].open # 0

Without(seq, i) == [k \in 1 .. (Len(seq) - 1) |-> IF k < i THEN seq[k] ELSE seq[k + 1]]

\* the rows a scan of the universe ts collects when the providers answer ins
RECURSIVE RowsOfScan(_, _, _)
RowsOfScan(ts, ins, n) ==
    IF n = 0 THEN {<<>>}
    ELSE {IF o.status = "ok" THEN Append(r, o.row) ELSE r :
             r \in RowsOfScan(ts, ins, n - 1), o \in ticker_outcomes(ts[n], ins[n])}

\* C10: a ticker whose processing raises contributes no row and is logged,
\* every ticker after it is still processed, and the rows collected are the
\* rows of a scan of the universe without that ticker.
C10_PerTickerIsolation ==
    pc \in {"loop", "returned"} =>
        /\ Len(inputs) = idx
        /\ pc = "returned" => idx = Len(tickers)
        /\ \A i \in 1 .. idx :
              LET rows == {k \in 1 .. Len(records) : records[k].ticker = tickers[i]}
                  logged == {k \in 1 .. Len(failed) : failed[k] = tickers[i]}
              IN  IF Fails(inputs[i])
                  THEN /\ rows = {}
                       /\ Cardinality(logged) = 1
                       /\ records \in RowsOfScan(Without(SubSeq(tickers, 1, idx), i),
                                                 Without(inputs, i), idx - 1)
                  ELSE /\ Cardinality(rows) = 1
                       /\ logged = {}
        /\ (pc = "returned" /\ csv.written) =>
              /\ Len(csv.rows) = Len(records)
              /\ \A k \in 1 .. Len(records) :
                    \E j \in 1 .. Len(csv.rows) : csv.rows[j] = records[k]

\* the first ticker fails, the second is processed and its row is written
C10_Witness ==
    /\ pc = "returned"
    /\ Len(tickers) = 2
    /\ Fails(inputs[1])
    /\ failed = <<tickers[1]>>
    /\ Len(records) = 1
    /\ records[1].ticker = tickers[2]
    /\ records[1].events_count > 0
    /\ csv = [written |-> TRUE, rows |-> records]

----------------------------------------------------------------------------
(* Claims about the end of a scan *)

\* the credential was found and the scan is about to ask for the universe
Configured == pc = "universe"

\* run_scan returned normally, the CSV file exists and the table was printed
Completed == pc = "returned" /\ csv.written /\ stdout # <<>>

\* C11: once the credential is configured, whatever the providers answer
\* (the universe provider included), the scan eventually returns without an
\* exception, having written the CSV file and printed the console summary.
C11_ScanAlwaysCompletes == Configured ~> Completed

----------------------------------------------------------------------------
(* Claims about the order of the reaction records *)

\* event i of the input comes before event j in a stable ascending order:
\* an earlier announcement, or the same announcement and an earlier row
ComesBefore(i, j) ==
    \/ SortKey(an_events[i]) < SortKey(an_events[j])
    \/ SortKey(an_events[i]) = SortKey(an_events[j]) /\ i < j

\* the rows of the input that get a record
EligibleRows == {i \in 1 .. Len(an_events) : Eligible(an_events[i])}

\* the place of row i among the records under a stable ascending order
StableRank(i) == Cardinality({j \in EligibleRows : ComesBefore(j, i)}) + 1

\* C12: the records analyze_ticker returns are in ascending order of the
\* announcement timestamp, and events with equal timestamps keep the
\* relative order they have in the input, whatever the input order is.
C12_StableTimestampOrder ==
    Returned =>
        /\ Len(an_ret.records) = Cardinality(EligibleRows)
        /\ \A i \in EligibleRows :
              LET r == an_ret.records[StableRank(i)]
              IN  /\ r.earnings_date = an_events[i].earnings_date
                  /\ r.release_flag = Upper(an_events[i].release_flag)

----------------------------------------------------------------------------
(* Claims about the non-earnings baseline *)

\* the baseline was computed: a valid row exists and the call returned
BaselineComputed == Scored /\ ValidRows # {}

\* the dates of the at most sample_non_earnings_days latest candidates
SampleDates ==
    LET rows == sc_daily.results
        later(k) == {j \in BaselineCandidates : rows[j].date > rows[k].date}
    IN  {rows[k].date : k \in {c \in BaselineCandidates :
                                 Cardinality(later(c)) < sample_non_earnings_days}}

\* |close/open - 1| of the sampled rows
SampleReturns ==
    LET sample == SelectSeq(sc_daily.results, LAMBDA bar : bar.date \in SampleDates)
    IN  [i \in 1 .. Len(sample) |-> RAbs(DailyReturn(sample[i]))]

\* C13: the baseline is the median of |close/open - 1| over the at most
\* sample_non_earnings_days latest daily rows of the lookback window that
\* ends at the latest session day of a valid record, rows on a session day
\* excluded; when the window has no row or no candidate is left, the
\* baseline is 0, a warning is logged and nothing is raised.
C13_Baseline ==
    /\ (sc_ret.status # "not called" /\ sc_daily.status = "ok") => Scored
    /\ BaselineComputed =>
          /\ SampleDates # {} =>
                sc_ret.non_earnings_median_abs = Median(SampleReturns)
          /\ BaselineCandidates = {} =>
                /\ sc_ret.non_earnings_median_abs = <<0, 1>>
                /\ sc_ret.warnings >= 1

====
